---------------------------- MODULE Spec2Model ----------------------------
(***************************************************************************)
(* Model of the agent dashboard server (src/server.cjs).                   *)
(*                                                                         *)
(* Two parts of the program carry state:                                   *)
(*                                                                         *)
(*   - the event collector of /api/attestations and /api/dvm: a promise    *)
(*     whose executor arms a 5 s timer and opens a relay subscription,     *)
(*     and whose onevent / oneose / timer callbacks race;                  *)
(*   - the history store (history.json) with addHistoryPoint and the       *)
(*     hourly throttle of /api/wallet and /api/trust.                      *)
(*                                                                         *)
(* Node runs one callback at a time.  Every action below is one callback   *)
(* (or one synchronous stretch of an async handler between two awaits),    *)
(* run to completion.  The continuation of an await on a settled promise   *)
(* is a microtask: it runs before any further timer or socket callback.    *)
(*                                                                         *)
(* The relay, the wallet, the trust API, the clock and the file system     *)
(* are the environment.  What the model assumes of the relay library,      *)
(* which is not part of the repository:                                    *)
(*   - callbacks of a subscription are delivered only while the            *)
(*     subscription is open (a closed subscription is silent);             *)
(*   - end-of-stored-events is signalled at most once per subscription;    *)
(*   - relay.subscribe and sub.close may throw; a sub.close that throws    *)
(*     may or may not have terminated the subscription.                    *)
(* Date.now() is taken to be non-decreasing; history.json is absent,       *)
(* unparseable, or a JSON object whose members are arrays of points.       *)
(***************************************************************************)
EXTENDS Integers, Sequences, FiniteSets

(***************************************************************************)
(* Bounds of the model.                                                    *)
(***************************************************************************)
\* longest sequence of events the relay delivers to one collection
MaxEvents == 3
\* events are drawn from 1..MaxEventId
MaxEventId == 2

\* number of times the clock advances
MaxTicks == 2
\* the clock advances stop short of this many weeks of run time
MaxWeeks == 2
\* most requests of one route awaiting their collaborator at once
MaxInflight == 2

EventIds == 1..MaxEventId
\* the balances and scores the collaborators return
Values == {50, 60}
\* milliseconds by which the clock advances between the two Date.now() reads
\* of one sample (handler line 102 / 136, then addHistoryPoint line 43)
Skews == {0, 1}

VARIABLES
  \* ---- configuration, loaded once at startup (lines 56-71)
  nostrKeys,      \* TRUE iff nostr-keys.json was read
  walletConfig,   \* TRUE iff wallet-config.json was read and has nwcUrl
  \* ---- the history store and its samplers
  file,           \* history.json: [kind, data]
  clock,          \* what Date.now() returns, in ms since the process started
  ticks,          \* number of clock advances so far
  nWallet,        \* /api/wallet requests awaiting wallet.getBalance()
  nTrust,         \* /api/trust requests awaiting fetch / response.json()
  last,           \* the last handler step of /api/wallet or /api/trust
  \* ---- one request to /api/attestations or /api/dvm
  route,          \* "attestations" | "dvm" | "none"
  hpc,            \* where the async handler stands
  relay,          \* "none" | "connected" | "closed"
  sub,            \* the const `sub`: "tdz" (uninitialised) | "open" | "closed"
  timer,          \* the const `timeout`: "unset" | "armed" | "cleared" | "fired"
  collected,      \* the array `collected`
  promise,        \* "none" | "pending" | "resolved" | "rejected"
  eosed,          \* the relay has signalled end-of-stored-events
  closeCalls,     \* number of invocations of sub.close()
  resolveCalls,   \* number of invocations of resolve()
  fired,          \* the trigger callbacks (oneose, timeout) that have run, in order
  atTrigger,      \* `collected` as it stood when the first trigger callback ran
  closeThrew,     \* some sub.close() has thrown
  escaped,        \* callback out of which an exception escaped: "none" | "oneose" | "timeout"
  crashed,        \* the process died of an uncaught exception
  response,       \* what res.json sent: [kind, events]
  events,         \* line 156: the batch handed to the classification
  body            \* lines 211-214: the answer {received, given}

collectorVars ==
  <<route, hpc, relay, sub, timer, collected, promise, eosed, closeCalls,
    resolveCalls, fired, atTrigger, closeThrew, escaped, crashed, response>>

historyVars == <<walletConfig, file, clock, ticks, nWallet, nTrust, last>>

classifierVars == <<events, body>>

vars == <<nostrKeys, collectorVars, historyVars, classifierVars>>

NoResponse == [kind |-> "none", events |-> <<>>]

\* nothing classified yet
NoBody == [kind |-> "none", received |-> <<>>, given |-> <<>>]

\* the classification part at rest
ClassifierIdle ==
  /\ events = <<>>
  /\ body = NoBody

(***************************************************************************)
(* The history store (lines 26-54).                                        *)
(***************************************************************************)

\* 60 * 60 * 1000 (lines 102, 136) and 7 * 24 * 60 * 60 * 1000 (line 50)
HourMs == 60 * 60 * 1000
WeekMs == 7 * 24 * 60 * 60 * 1000

Keys == {"wallet", "trust"}

\* a JSON object with no member
NoData == [k \in {} |-> <<>>]

\* history.json is absent, is not JSON, or is the text of a mapping of series.
\* fmt is the layout of the text: "indent2" is what JSON.stringify(_, null, 2)
\* produces, "other" any other layout of the same JSON value
Missing == [kind |-> "missing", fmt |-> "none", data |-> NoData]
Corrupt == [kind |-> "corrupt", fmt |-> "none", data |-> NoData]
Json(h) == [kind |-> "json", fmt |-> "indent2", data |-> h]
\* the JSON value h laid out otherwise (written by hand or by another tool)
OtherLayout(h) == [kind |-> "json", fmt |-> "other", data |-> h]

\* line 33: { wallet: [], trust: [] }
EmptyHistory == [k \in Keys |-> <<>>]

\* a plausible slip: the fallback is {} instead of { wallet: [], trust: [] }
LoadHistoryNoSeries(f) == IF f.kind = "json" THEN f.data ELSE NoData

\* lines 29-35: readFileSync or JSON.parse throws => the empty mapping;
\* JSON.parse reads the value whatever the layout
LoadHistory(f) == IF f.kind = "json" THEN f.data ELSE EmptyHistory

\* lines 37-39: writeFileSync(HISTORY_FILE, JSON.stringify(history, null, 2))
SaveHistory(history) == Json(history)

\* [mutation] the result of filter is not assigned back
RetainAll(series, weekAgo) == series

\* a plausible slip: >= instead of > keeps the point that is exactly 7 days old
RetainInclusive(series, weekAgo) ==
  SelectSeq(series, LAMBDA p : p.timestamp >= weekAgo)

\* line 51: history[key].filter(p => p.timestamp > weekAgo)
Retain(series, weekAgo) ==
  SelectSeq(series, LAMBDA p : p.timestamp > weekAgo)

\* a plausible slip: the filter is applied to every series of the mapping
AddHistoryPointPruneAll(f, key, value, now) ==
  LET history == LoadHistory(f)
      series  == IF key \in DOMAIN history THEN history[key] ELSE <<>>
      pushed  == Append(series, [timestamp |-> now, value |-> value])
      weekAgo == now - WeekMs
  IN  SaveHistory([k \in DOMAIN history \cup {key} |->
                     IF k = key THEN Retain(pushed, weekAgo)
                                ELSE Retain(history[k], weekAgo)])

\* [mutation] only the series written is saved
AddHistoryPointOnlyKey(f, key, value, now) ==
  LET history == LoadHistory(f)
      series  == IF key \in DOMAIN history THEN history[key] ELSE <<>>
      pushed  == Append(series, [timestamp |-> now, value |-> value])
      weekAgo == now - WeekMs
  IN  SaveHistory([k \in {key} |-> Retain(pushed, weekAgo)])

\* lines 41-54: addHistoryPoint(key, value), with `now` its Date.now()
AddHistoryPoint(f, key, value, now) ==
  LET history == LoadHistory(f)
      \* line 46: if (!history[key]) history[key] = []
      series  == IF key \in DOMAIN history THEN history[key] ELSE <<>>
      \* line 47
      pushed  == Append(series, [timestamp |-> now, value |-> value])
      \* line 50
      weekAgo == now - WeekMs
  IN  SaveHistory([k \in DOMAIN history \cup {key} |->
                     IF k = key THEN Retain(pushed, weekAgo) ELSE history[k]])

\* [mutation] the oldest point of the series instead of the newest
LastPointOldest(history, key) ==
  IF key \in DOMAIN history /\ Len(history[key]) > 0
    THEN <<history[key][1]>>
    ELSE <<>>

\* lines 101 / 135: history.wallet?.[history.wallet.length - 1];
\* <<>> stands for undefined, <<p>> for the point p
LastPoint(history, key) ==
  IF key \in DOMAIN history /\ Len(history[key]) > 0
    THEN <<history[key][Len(history[key])]>>
    ELSE <<>>

\* plausible slips: <= instead of <, and no throttle at all
ShouldSampleInclusive(lastPoint, hourAgo) ==
  lastPoint = <<>> \/ lastPoint[1].timestamp <= hourAgo

ShouldSampleAlways(lastPoint, hourAgo) == TRUE

\* lines 103 / 137: !lastWallet || lastWallet.timestamp < hourAgo
ShouldSample(lastPoint, hourAgo) ==
  lastPoint = <<>> \/ lastPoint[1].timestamp < hourAgo

\* lines 100-105 / 134-139 as a function of the file: the handler reads the
\* clock as t1 for the throttle, addHistoryPoint reads it again as t2
SampleResult(f, key, value, t1, t2) ==
  IF ShouldSample(LastPoint(LoadHistory(f), key), t1 - HourMs)
    THEN AddHistoryPoint(f, key, value, t2)
    ELSE f

\* no handler step of /api/wallet or /api/trust has completed yet
NoStep ==
  [kind |-> "none", key |-> "none", value |-> 0, t1 |-> 0, t2 |-> 0,
   before |-> Missing, appended |-> FALSE, resp |-> "none", repeat |-> FALSE]

\* the history part at rest
HistoryIdle ==
  /\ clock = 0
  /\ ticks = 0
  /\ nWallet = 0
  /\ nTrust = 0
  /\ last = NoStep

\* the collector part at rest
CollectorIdle ==
  /\ route = "none"
  /\ hpc = "idle"
  /\ relay = "none"
  /\ sub = "tdz"
  /\ timer = "unset"
  /\ collected = <<>>
  /\ promise = "none"
  /\ eosed = FALSE
  /\ closeCalls = 0
  /\ resolveCalls = 0
  /\ fired = <<>>
  /\ atTrigger = <<>>
  /\ closeThrew = FALSE
  /\ escaped = "none"
  /\ crashed = FALSE
  /\ response = NoResponse

(***************************************************************************)
(* The event collector.                                                    *)
(***************************************************************************)

\* the continuation of `await new Promise(...)` is queued and not yet run
MicrotaskPending == hpc = "collecting" /\ promise \in {"resolved", "rejected"}

\* a timer or socket callback can be dispatched
LoopFree == ~crashed /\ ~MicrotaskPending

CollectorInit ==
  /\ nostrKeys \in BOOLEAN
  /\ walletConfig = TRUE
  /\ file = Missing
  /\ CollectorIdle
  /\ HistoryIdle
  /\ ClassifierIdle

\* lines 150-152 / 245-247: no identity, answer before any I/O
RequestNoIdentity(r) ==
  /\ hpc = "idle"
  /\ ~nostrKeys
  /\ route' = r
  /\ hpc' = "responded"
  /\ response' = [kind |-> "error", events |-> <<>>]
  /\ UNCHANGED <<classifierVars, historyVars, nostrKeys, relay, sub, timer, collected, promise, eosed,
                 closeCalls, resolveCalls, fired, atTrigger, closeThrew,
                 escaped, crashed>>

\* lines 155 / 250: await Relay.connect(...)
RequestConnect(r) ==
  /\ hpc = "idle"
  /\ nostrKeys
  /\ route' = r
  /\ hpc' = "connecting"
  /\ UNCHANGED <<classifierVars, historyVars, nostrKeys, relay, sub, timer, collected, promise, eosed,
                 closeCalls, resolveCalls, fired, atTrigger, closeThrew,
                 escaped, crashed, response>>

\* [mutation] the deadline timer started before the connection is awaited
ConnectFailsTimerArmed ==
  /\ hpc = "connecting"
  /\ ~crashed
  /\ hpc' = "responded"
  /\ timer' = "armed"
  /\ response' = [kind |-> "error", events |-> <<>>]
  /\ UNCHANGED <<classifierVars, historyVars, nostrKeys, route, relay, sub,
                 collected, promise, eosed, closeCalls, resolveCalls, fired,
                 atTrigger, closeThrew, escaped, crashed>>

\* Relay.connect rejects: the catch clause answers {error}
ConnectFails ==
  /\ hpc = "connecting"
  /\ ~crashed
  /\ hpc' = "responded"
  /\ response' = [kind |-> "error", events |-> <<>>]
  /\ UNCHANGED <<classifierVars, historyVars, nostrKeys, route, relay, sub, timer, collected, promise, eosed,
                 closeCalls, resolveCalls, fired, atTrigger, closeThrew,
                 escaped, crashed>>

\* Relay.connect resolves; the promise executor runs: collected = [],
\* setTimeout(..., 5000), relay.subscribe(...) returns the subscription
ConnectAndSubscribe ==
  /\ hpc = "connecting"
  /\ ~crashed
  /\ relay' = "connected"
  /\ collected' = <<>>
  /\ timer' = "armed"
  /\ sub' = "open"
  /\ promise' = "pending"
  /\ hpc' = "collecting"
  /\ UNCHANGED <<classifierVars, historyVars, nostrKeys, route, eosed, closeCalls, resolveCalls, fired,
                 atTrigger, closeThrew, escaped, crashed, response>>

\* as above, but relay.subscribe throws: the executor's exception rejects the
\* promise; `sub` is never initialised and the timer stays armed
ConnectAndSubscribeThrows ==
  /\ hpc = "connecting"
  /\ ~crashed
  /\ relay' = "connected"
  /\ collected' = <<>>
  /\ timer' = "armed"
  /\ sub' = "tdz"
  /\ promise' = "rejected"
  /\ hpc' = "collecting"
  /\ UNCHANGED <<classifierVars, historyVars, nostrKeys, route, eosed, closeCalls, resolveCalls, fired,
                 atTrigger, closeThrew, escaped, crashed, response>>

\* lines 178-180 / 266-268: onevent(event) { collected.push(event) }
OnEvent(e) ==
  /\ LoopFree
  /\ sub = "open"
  /\ Len(collected) < MaxEvents
  /\ collected' = Append(collected, e)
  /\ UNCHANGED <<classifierVars, historyVars, nostrKeys, route, hpc, relay, sub, timer, promise, eosed,
                 closeCalls, resolveCalls, fired, atTrigger, closeThrew,
                 escaped, crashed, response>>

\* resolve(collected): settles a pending promise, no effect on a settled one
Resolved(p) == IF p = "pending" THEN "resolved" ELSE p

\* what the first trigger callback saw
Snapshot == IF fired = <<>> THEN collected ELSE atTrigger

\* a plausible slip: oneose without clearTimeout(timeout)
OnEoseNoClear ==
  /\ LoopFree
  /\ sub = "open"
  /\ ~eosed
  /\ eosed' = TRUE
  /\ fired' = Append(fired, "oneose")
  /\ atTrigger' = Snapshot
  /\ closeCalls' = closeCalls + 1
  /\ \/ /\ sub' = "closed"
        /\ promise' = Resolved(promise)
        /\ resolveCalls' = resolveCalls + 1
        /\ UNCHANGED <<closeThrew, escaped, crashed>>
     \/ /\ sub' \in {"open", "closed"}
        /\ closeThrew' = TRUE
        /\ escaped' = "oneose"
        /\ crashed' \in BOOLEAN
        /\ UNCHANGED <<promise, resolveCalls>>
  /\ UNCHANGED <<classifierVars, historyVars, nostrKeys, route, hpc, relay, timer, collected, response>>

\* lines 181-185 / 269-273:
\*   oneose() { clearTimeout(timeout); sub.close(); resolve(collected) }
OnEose ==
  /\ LoopFree
  /\ sub = "open"
  /\ ~eosed
  /\ eosed' = TRUE
  /\ fired' = Append(fired, "oneose")
  /\ atTrigger' = Snapshot
  \* clearTimeout(timeout)
  /\ timer' = IF timer = "armed" THEN "cleared" ELSE timer
  \* sub.close()
  /\ closeCalls' = closeCalls + 1
  /\ \/ /\ sub' = "closed"
        \* resolve(collected)
        /\ promise' = Resolved(promise)
        /\ resolveCalls' = resolveCalls + 1
        /\ UNCHANGED <<closeThrew, escaped, crashed>>
     \/ \* sub.close() throws: resolve is not reached, the exception leaves
        \* the callback into the relay library's dispatch
        /\ sub' \in {"open", "closed"}
        /\ closeThrew' = TRUE
        /\ escaped' = "oneose"
        /\ crashed' \in BOOLEAN
        /\ UNCHANGED <<promise, resolveCalls>>
  /\ UNCHANGED <<classifierVars, historyVars, nostrKeys, route, hpc, relay, collected, response>>

\* lines 159-162 / 254-257:
\*   setTimeout(() => { sub.close(); resolve(collected) }, 5000)
TimeoutFires ==
  /\ LoopFree
  /\ timer = "armed"
  /\ timer' = "fired"
  /\ fired' = Append(fired, "timeout")
  /\ atTrigger' = Snapshot
  /\ IF sub = "tdz"
       THEN \* ReferenceError: `sub` was never initialised; uncaught in a timer
            /\ escaped' = "timeout"
            /\ crashed' = TRUE
            /\ UNCHANGED <<sub, closeCalls, closeThrew, promise, resolveCalls>>
       ELSE /\ closeCalls' = closeCalls + 1
            /\ \/ /\ sub' = "closed"
                  /\ promise' = Resolved(promise)
                  /\ resolveCalls' = resolveCalls + 1
                  /\ UNCHANGED <<closeThrew, escaped, crashed>>
               \/ \* sub.close() throws: uncaught in a timer callback
                  /\ sub' \in {sub, "closed"}
                  /\ closeThrew' = TRUE
                  /\ escaped' = "timeout"
                  /\ crashed' = TRUE
                  /\ UNCHANGED <<promise, resolveCalls>>
  /\ UNCHANGED <<classifierVars, historyVars, nostrKeys, route, hpc, relay, collected, eosed, response>>

\* lines 189-214 / 277-288: the await returns; relay.close(); res.json(...)
\* `events` is the array `collected` itself
HandlerResumes ==
  /\ ~crashed
  /\ hpc = "collecting"
  /\ promise = "resolved"
  /\ relay' = "closed"
  /\ response' = [kind |-> "ok", events |-> collected]
  /\ hpc' = "responded"
  /\ UNCHANGED <<classifierVars, historyVars, nostrKeys, route, sub, timer, collected, promise, eosed,
                 closeCalls, resolveCalls, fired, atTrigger, closeThrew,
                 escaped, crashed>>

\* lines 215-217 / 289-291: the await throws; catch (e) { res.json({error}) }
HandlerCatches ==
  /\ ~crashed
  /\ hpc = "collecting"
  /\ promise = "rejected"
  /\ response' = [kind |-> "error", events |-> <<>>]
  /\ hpc' = "responded"
  /\ UNCHANGED <<classifierVars, historyVars, nostrKeys, route, relay, sub, timer, collected, promise, eosed,
                 closeCalls, resolveCalls, fired, atTrigger, closeThrew,
                 escaped, crashed>>

CollectorNext ==
  \/ \E r \in {"attestations", "dvm"} : RequestNoIdentity(r)
  \/ \E r \in {"attestations", "dvm"} : RequestConnect(r)
  \/ ConnectFails
  \/ ConnectAndSubscribe
  \/ ConnectAndSubscribeThrows
  \/ \E e \in EventIds : OnEvent(e)
  \/ OnEose
  \/ TimeoutFires
  \/ HandlerResumes
  \/ HandlerCatches

CollectorSpec == CollectorInit /\ [][CollectorNext]_vars

(***************************************************************************)
(* Claims about the event collector, checked under CollectorSpec.          *)
(***************************************************************************)

\* C1: within one collection, whichever of oneose / timeout runs first wins
\* and the other has no effect: sub.close() is invoked at most once, resolve
\* is invoked at most once, at most one of the two trigger callbacks ever
\* runs, and the events answered are exactly those collected when the first
\* trigger ran.
C1_RaceGuard ==
  /\ closeCalls <= 1
  /\ resolveCalls <= 1
  /\ Len(fired) <= 1
  /\ response.kind = "ok" => response.events = atTrigger

\* C1 witness: oneose won with events collected, the timer was cancelled and
\* the handler has answered.
C1_Witness ==
  /\ fired = <<"oneose">>
  /\ timer = "cleared"
  /\ closeCalls = 1
  /\ response.kind = "ok"
  /\ Len(response.events) >= 1

\* C2: whenever the handler has answered a request whose relay connection
\* was established, relay.close() has been called and the subscription is
\* terminated, on success and on failure alike.
C2_ClosedOnEveryExit ==
  (hpc = "responded" /\ relay # "none") => (relay = "closed" /\ sub = "closed")

\* C3: when a trigger callback's sub.close() throws, the error is swallowed:
\* no exception leaves the callback, the promise is resolved with the events
\* collected so far, and once the handler has answered the connection is
\* closed and those events are the answer.
C3_TerminationErrorsSwallowed ==
  closeThrew =>
    /\ escaped = "none"
    /\ ~crashed
    /\ promise = "resolved"
    /\ hpc = "responded" =>
          (relay = "closed" /\ response = [kind |-> "ok", events |-> atTrigger])

\* C4: when end-of-stored-events is signalled before the deadline, the
\* collection returns exactly the events delivered until then, in delivery
\* order, the subscription is closed at the signal, and the timer is
\* cancelled so that its callback never runs.
C4_EndOfStreamFirst ==
  (fired # <<>> /\ fired[1] = "oneose") =>
    /\ fired = <<"oneose">>
    /\ timer = "cleared"
    /\ sub = "closed"
    /\ promise = "resolved"
    /\ hpc = "responded" => response = [kind |-> "ok", events |-> atTrigger]

\* C5: with the subscription opened and no end-of-stored-events signal, the
\* collection does not return before the timer fires, and once the timer has
\* fired it returns the events received until then and the subscription is
\* closed.
C5_DeadlineFirst ==
  /\ (promise = "resolved" /\ ~eosed) => (fired # <<>> /\ fired[1] = "timeout")
  /\ (fired # <<>> /\ fired[1] = "timeout" /\ sub # "tdz") =>
        /\ promise = "resolved"
        /\ sub = "closed"
        /\ hpc = "responded" => response = [kind |-> "ok", events |-> atTrigger]

(***************************************************************************)
(* The samplers: /api/wallet (lines 89-114) and /api/trust (123-146).      *)
(***************************************************************************)

\* a snapshot left by an earlier run of the server: each series holds one
\* point, written exactly one hour before this process started (clock = 0)
PriorRun ==
  Json([k \in Keys |-> <<[timestamp |-> 0 - HourMs, value |-> 50]>>])

HistoryInit ==
  /\ nostrKeys \in BOOLEAN
  /\ walletConfig \in BOOLEAN
  /\ file \in {Missing, Corrupt, Json(NoData), PriorRun}
  /\ HistoryIdle
  /\ CollectorIdle
  /\ ClassifierIdle

\* the clock advances between two callbacks
Steps == {1, HourMs, WeekMs}

Tick(d) ==
  /\ ticks < MaxTicks
  /\ d <= MaxWeeks * WeekMs - clock
  /\ clock' = clock + d
  /\ ticks' = ticks + 1
  /\ UNCHANGED <<nostrKeys, walletConfig, file, nWallet, nTrust, last,
                 collectorVars, classifierVars>>

\* history.json is deleted from outside
SnapshotDeleted ==
  /\ file.kind = "json"
  /\ file' = Missing
  /\ last' = NoStep
  /\ UNCHANGED <<nostrKeys, walletConfig, clock, ticks, nWallet, nTrust,
                 collectorVars, classifierVars>>

\* history.json is left unparseable (truncated, overwritten from outside)
SnapshotCorrupted ==
  /\ file.kind = "json"
  /\ file' = Corrupt
  /\ last' = NoStep
  /\ UNCHANGED <<nostrKeys, walletConfig, clock, ticks, nWallet, nTrust,
                 collectorVars, classifierVars>>

\* a handler step that does not reach the throttle
NoSample(key, resp) ==
  [NoStep EXCEPT !.kind = "nosample", !.key = key, !.before = file,
                 !.resp = resp]

\* lines 100-105 / 134-139: the throttle and the write, one synchronous run
MaybeSample(key, value, skew) ==
  LET t1 == clock
      t2 == clock + skew
      go == ShouldSample(LastPoint(LoadHistory(file), key), t1 - HourMs)
      adv == go /\ skew > 0
  IN  /\ adv => ticks < MaxTicks
      /\ file' = SampleResult(file, key, value, t1, t2)
      /\ clock' = IF go THEN t2 ELSE clock
      /\ ticks' = IF adv THEN ticks + 1 ELSE ticks
      /\ last' = [kind |-> "sample", key |-> key, value |-> value,
                  t1 |-> t1, t2 |-> IF go THEN t2 ELSE t1,
                  before |-> file, appended |-> go, resp |-> "ok",
                  repeat |-> /\ last.kind = "sample"
                             /\ last.key = key
                             /\ last.value = value
                             /\ last.t1 = t1
                             /\ last.t2 = t1
                             /\ (go => t2 = t1)]

\* lines 90-92
WalletNoConfig ==
  /\ ~walletConfig
  /\ last' = NoSample("wallet", "error")
  /\ UNCHANGED <<nostrKeys, walletConfig, file, clock, ticks, nWallet, nTrust,
                 collectorVars, classifierVars>>

\* lines 95-96: createWallet, await wallet.getBalance()
WalletRequest ==
  /\ walletConfig
  /\ nWallet < MaxInflight
  /\ nWallet' = nWallet + 1
  /\ UNCHANGED <<nostrKeys, walletConfig, file, clock, ticks, nTrust, last,
                 collectorVars, classifierVars>>

\* getBalance rejects (or wallet.close throws): lines 111-113
WalletFails ==
  /\ nWallet > 0
  /\ nWallet' = nWallet - 1
  /\ last' = NoSample("wallet", "error")
  /\ UNCHANGED <<nostrKeys, walletConfig, file, clock, ticks, nTrust,
                 collectorVars, classifierVars>>

\* getBalance resolves: lines 97-110
WalletBalance(v) ==
  /\ nWallet > 0
  /\ nWallet' = nWallet - 1
  /\ \E skew \in Skews : MaybeSample("wallet", v, skew)
  /\ UNCHANGED <<nostrKeys, walletConfig, nTrust, collectorVars, classifierVars>>

\* lines 124-126
TrustNoIdentity ==
  /\ ~nostrKeys
  /\ last' = NoSample("trust", "error")
  /\ UNCHANGED <<nostrKeys, walletConfig, file, clock, ticks, nWallet, nTrust,
                 collectorVars, classifierVars>>

\* lines 129-130: await fetch(...), await response.json()
TrustRequest ==
  /\ nostrKeys
  /\ nTrust < MaxInflight
  /\ nTrust' = nTrust + 1
  /\ UNCHANGED <<nostrKeys, walletConfig, file, clock, ticks, nWallet, last,
                 collectorVars, classifierVars>>

\* fetch or response.json() rejects: lines 143-145
TrustFails ==
  /\ nTrust > 0
  /\ nTrust' = nTrust - 1
  /\ last' = NoSample("trust", "error")
  /\ UNCHANGED <<nostrKeys, walletConfig, file, clock, ticks, nWallet,
                 collectorVars, classifierVars>>

\* [mutation] line 133 left out: a point is written without a score
TrustNoScoreWrites ==
  /\ nTrust > 0
  /\ nTrust' = nTrust - 1
  /\ file' = AddHistoryPoint(file, "trust", 0, clock)
  /\ last' = NoSample("trust", "ok")
  /\ UNCHANGED <<nostrKeys, walletConfig, clock, ticks, nWallet,
                 collectorVars, classifierVars>>

\* the response has no `score`: line 133 is false, line 142 answers
TrustNoScore ==
  /\ nTrust > 0
  /\ nTrust' = nTrust - 1
  /\ last' = NoSample("trust", "ok")
  /\ UNCHANGED <<nostrKeys, walletConfig, file, clock, ticks, nWallet,
                 collectorVars, classifierVars>>

\* the response has a score: lines 133-142
TrustScore(v) ==
  /\ nTrust > 0
  /\ nTrust' = nTrust - 1
  /\ \E skew \in Skews : MaybeSample("trust", v, skew)
  /\ UNCHANGED <<nostrKeys, walletConfig, nWallet, collectorVars, classifierVars>>

HistoryNext ==
  \/ \E d \in Steps : Tick(d)
  \/ SnapshotDeleted
  \/ SnapshotCorrupted
  \/ WalletNoConfig
  \/ WalletRequest
  \/ WalletFails
  \/ \E v \in Values : WalletBalance(v)
  \/ TrustNoIdentity
  \/ TrustRequest
  \/ TrustFails
  \/ TrustNoScore
  \/ \E v \in Values : TrustScore(v)

HistorySpec == HistoryInit /\ [][HistoryNext]_vars

(***************************************************************************)
(* Claims about the history store and the throttle, checked under          *)
(* HistorySpec.  `last` describes the last completed handler step: the     *)
(* file it found (before), the clock it read for the throttle (t1) and,    *)
(* when it wrote, the clock addHistoryPoint read (t2).                     *)
(***************************************************************************)

\* the series of `key` in mapping h, empty when h has no such member
SeriesOf(h, key) == IF key \in DOMAIN h THEN h[key] ELSE <<>>

\* the last handler step ran the throttle and called addHistoryPoint
JustAppended == last.kind = "sample" /\ last.appended

NewPoint == [timestamp |-> last.t2, value |-> last.value]

\* C6: after addHistoryPoint(key, value) has run at time t2, the series of
\* `key` ends with the new point {t2, value} and holds no point with
\* timestamp <= t2 - 7 days.
C6_WrittenSeriesRetention ==
  JustAppended =>
    /\ file.kind = "json"
    /\ last.key \in DOMAIN file.data
    /\ LET s == file.data[last.key]
       IN  /\ Len(s) >= 1
           /\ s[Len(s)] = NewPoint
           /\ \A i \in 1..Len(s) : s[i].timestamp > last.t2 - WeekMs

\* C6 witness: the write found a point exactly 7 days old in the series and
\* removed it.
C6_Witness ==
  /\ JustAppended
  /\ \E i \in 1..Len(SeriesOf(LoadHistory(last.before), last.key)) :
       SeriesOf(LoadHistory(last.before), last.key)[i].timestamp
         = last.t2 - WeekMs
  /\ Len(file.data[last.key]) = 1

\* C7 as claimed: after addHistoryPoint(key, value) at time t2, every point
\* of every series of the persisted mapping is younger than 7 days.
C7_AllSeriesRetention ==
  JustAppended =>
    \A k \in DOMAIN file.data :
      \A i \in 1..Len(file.data[k]) :
        file.data[k][i].timestamp > last.t2 - WeekMs

\* C7 as amended: after addHistoryPoint(key, value) at time t2, every point
\* of series `key` is younger than 7 days, and every other series holds
\* exactly the points it held before the write, whatever their age.
C7_OnlyWrittenSeriesPruned ==
  JustAppended =>
    /\ \A i \in 1..Len(file.data[last.key]) :
         file.data[last.key][i].timestamp > last.t2 - WeekMs
    /\ DOMAIN file.data = DOMAIN LoadHistory(last.before) \cup {last.key}
    /\ \A k \in DOMAIN file.data \ {last.key} :
         file.data[k] = LoadHistory(last.before)[k]

\* C7 witness: a write to one series has left a point older than 7 days in
\* another series.
C7_Witness ==
  /\ JustAppended
  /\ \E k \in DOMAIN file.data \ {last.key} :
       \E i \in 1..Len(file.data[k]) :
         file.data[k][i].timestamp <= last.t2 - WeekMs

\* C8: a sample of (key, value) whose throttle reads the clock as t1 appends
\* exactly one point to series `key` if the series has no last point or
\* lastPoint.timestamp < t1 - 3600000, and otherwise leaves the file as it
\* was.  The appended point is {t2, value}, t2 the clock as addHistoryPoint
\* reads it: t1 when the clock has not advanced in between ({nowMs, value}
\* for a sample taken at the one time nowMs), at most one skew later.
C8_ThrottleDecision ==
  last.kind = "sample" =>
    LET h   == LoadHistory(last.before)
        old == SeriesOf(h, last.key)
        due == old = <<>> \/ old[Len(old)].timestamp < last.t1 - HourMs
    IN  IF due
          THEN /\ last.appended
               /\ last.t2 - last.t1 \in Skews
               /\ file.kind = "json"
               /\ file.data[last.key] =
                    Append(SelectSeq(old, LAMBDA p : p.timestamp > last.t2 - WeekMs),
                           NewPoint)
               /\ \A k \in DOMAIN h \ {last.key} : file.data[k] = h[k]
          ELSE /\ ~last.appended
               /\ file = last.before

\* C8 witness: a sample taken at one time nowMs, more than an hour after the
\* last point, has appended a second point {nowMs, value}.
C8_Witness ==
  /\ JustAppended
  /\ last.t1 = last.t2
  /\ Len(file.data[last.key]) = 2
  /\ Len(SeriesOf(LoadHistory(last.before), last.key)) = 1

\* C9: a sample (key, v) at time t performed twice in succession leaves the
\* file as the first one left it, with at most one point of timestamp t in
\* the series; and from every reachable file, sampling twice at the current
\* time gives what sampling once gives.
C9_ThrottleIdempotent ==
  /\ (last.kind = "sample" /\ last.repeat) =>
       /\ file = last.before
       /\ LET s == SeriesOf(LoadHistory(file), last.key)
          IN  Cardinality({i \in 1..Len(s) : s[i].timestamp = last.t1}) <= 1
  /\ \A k \in Keys, v \in Values :
       SampleResult(SampleResult(file, k, v, clock, clock), k, v, clock, clock)
         = SampleResult(file, k, v, clock, clock)

\* C9 witness: the first of two successive samples at time t appended the
\* point of timestamp t, the second has run.
C9_Witness ==
  /\ last.kind = "sample"
  /\ last.repeat
  /\ LET s == SeriesOf(LoadHistory(file), last.key)
     IN  Len(s) >= 1 /\ s[Len(s)].timestamp = last.t1

\* C10: loadHistory of a missing or unparseable history.json is the empty
\* mapping {wallet: [], trust: []}; a sample that finds such a file answers
\* without error and leaves a well-formed file holding the new point.
C10_LoadTotalAndSelfHealing ==
  /\ file.kind # "json" => LoadHistory(file) = EmptyHistory
  /\ (last.kind = "sample" /\ last.before.kind \in {"missing", "corrupt"}) =>
       /\ LoadHistory(last.before) = EmptyHistory
       /\ last.resp = "ok"
       /\ last.appended
       /\ file = Json([k \in Keys |->
                         IF k = last.key THEN <<NewPoint>> ELSE <<>>])

\* C10 witness: a sample found an unparseable file that an earlier write had
\* produced intact, and replaced it.
C10_Witness ==
  /\ last.kind = "sample"
  /\ last.before.kind = "corrupt"
  /\ file.kind = "json"
  /\ clock > 0

(***************************************************************************)
(* saveHistory(loadHistory()) (lines 29-39), applied to the files the      *)
(* samplers leave and to snapshots laid out by another hand.               *)
(***************************************************************************)

\* the snapshot of an earlier run, re-indented from outside
ReformattedRun == OtherLayout(PriorRun.data)

RoundTripInit ==
  /\ nostrKeys \in BOOLEAN
  /\ walletConfig \in BOOLEAN
  /\ file \in {Missing, Corrupt, Json(NoData), OtherLayout(NoData), PriorRun,
               ReformattedRun}
  /\ HistoryIdle
  /\ CollectorIdle
  /\ ClassifierIdle

\* saveHistory(loadHistory())
RoundTrip ==
  /\ file' = SaveHistory(LoadHistory(file))
  /\ last' = [NoStep EXCEPT !.kind = "roundtrip", !.before = file]
  /\ UNCHANGED <<nostrKeys, walletConfig, clock, ticks, nWallet, nTrust,
                 collectorVars, classifierVars>>

RoundTripNext == HistoryNext \/ RoundTrip

RoundTripSpec == RoundTripInit /\ [][RoundTripNext]_vars

\* two files hold the same content up to formatting whitespace
SameContent(f, g) == f.kind = g.kind /\ f.data = g.data

MaxBatch == 3

\* nostrKeys.publicKeyHex, and a key that is not ours
PublicKeyHex == "me"
PubKeys == {PublicKeyHex, "peer"}

\* created_at of an event
CreatedAts == {1, 2}

\* what JavaScript yields for a missing array slot or a failed find
Undefined == "<undefined>"

\* tag arrays an event may carry: none; one of each; several of each with an
\* "l" tag of another namespace first; tags without a value slot
TagLists ==
  { <<>>,
    << <<"p", "alice">>, <<"l", "service-quality", "ai.wot">>,
       <<"comment", "good">> >>,
    << <<"e", "x">>, <<"p", "alice">>, <<"p", "bob">>,
       <<"l", "spam", "elsewhere">>, <<"l", "work-completed", "ai.wot">>,
       <<"l", "service-quality", "ai.wot">>, <<"comment", "good">>,
       <<"comment", "late">> >>,
    << <<"p">>, <<"p", "bob">>, <<"l", "service-quality">>,
       <<"comment", "">>, <<"comment", "late">> >> }

\* what tells one event of a batch from another, besides its id
Shapes == PubKeys \X CreatedAts \X TagLists

\* the batch of the events shaped as f says; the id of an event is its place
\* in the batch, so that events are distinct
Batch(f) ==
  [i \in DOMAIN f |->
     [id |-> i, pubkey |-> f[i][1], created_at |-> f[i][2], tags |-> f[i][3]]]

\* the predicates handed to e.tags.find (lines 193-195); t[0] of the source is
\* t[1] here
Matches(t, what) ==
  IF what = "l"
    THEN Len(t) >= 3 /\ t[1] = "l" /\ t[3] = "ai.wot"
    ELSE Len(t) >= 1 /\ t[1] = what

\* t?.[1]
Slot(t) == IF Len(t) >= 2 THEN t[2] ELSE Undefined

\* [mutation] the last matching tag instead of the first
TagValueLast(tags, what) ==
  LET idx == {i \in 1..Len(tags) : Matches(tags[i], what)}
  IN  IF idx = {} THEN Undefined
      ELSE Slot(tags[CHOOSE i \in idx : \A j \in idx : j <= i])

\* e.tags.find(pred)?.[1]: find returns the first match, or undefined
TagValue(tags, what) ==
  LET idx == {i \in 1..Len(tags) : Matches(tags[i], what)}
  IN  IF idx = {} THEN Undefined
      ELSE Slot(tags[CHOOSE i \in idx : \A j \in idx : i <= j])

\* x || '' on a string or undefined
OrEmpty(x) == IF x = Undefined \/ x = "" THEN "" ELSE x

\* [mutation] the comparison of line 204 turned round
DirectionSwapped(pubkey) ==
  IF pubkey = PublicKeyHex THEN "received" ELSE "given"

\* line 204
Direction(pubkey) ==
  IF pubkey = PublicKeyHex THEN "given" ELSE "received"

\* lines 192-206: the callback of events.map
Attestation(e) ==
  [id        |-> e.id,
   from      |-> e.pubkey,
   to        |-> TagValue(e.tags, "p"),
   type      |-> TagValue(e.tags, "l"),
   comment   |-> OrEmpty(TagValue(e.tags, "comment")),
   timestamp |-> e.created_at,
   direction |-> Direction(e.pubkey)]

Map(es) == [i \in 1..Len(es) |-> Attestation(es[i])]

\* [mutation] a sort that puts an element before those of equal timestamp
InsertBeforeTies(sorted, a) ==
  LET pos == Cardinality({i \in 1..Len(sorted) :
                            sorted[i].timestamp > a.timestamp})
  IN  SubSeq(sorted, 1, pos) \o <<a>> \o SubSeq(sorted, pos + 1, Len(sorted))

\* one step of the stable sort of line 209 under the comparator
\* (a, b) => b.timestamp - a.timestamp: a goes behind every element that does
\* not compare after it
Insert(sorted, a) ==
  LET pos == Cardinality({i \in 1..Len(sorted) :
                            sorted[i].timestamp >= a.timestamp})
  IN  SubSeq(sorted, 1, pos) \o <<a>> \o SubSeq(sorted, pos + 1, Len(sorted))

\* line 209: Array.prototype.sort, which is stable
RECURSIVE Sort(_)
Sort(as) ==
  IF as = <<>> THEN <<>>
  ELSE Insert(Sort(SubSeq(as, 1, Len(as) - 1)), as[Len(as)])

IsReceived(a) == a.direction = "received"
IsGiven(a) == a.direction = "given"

ClassifyInit ==
  /\ nostrKeys = TRUE
  /\ walletConfig = TRUE
  /\ file = Missing
  /\ \E n \in 0..MaxBatch : \E f \in [1..n -> Shapes] : events = Batch(f)
  /\ body = NoBody
  /\ CollectorIdle
  /\ HistoryIdle

\* lines 192-214
Classify ==
  /\ nostrKeys
  /\ body = NoBody
  /\ LET attestations == Sort(Map(events))
     IN  body' = [kind     |-> "ok",
                  received |-> SelectSeq(attestations, IsReceived),
                  given    |-> SelectSeq(attestations, IsGiven)]
  /\ UNCHANGED <<nostrKeys, events, collectorVars, historyVars>>

ClassifyNext == Classify

ClassifySpec == ClassifyInit /\ [][ClassifyNext]_vars

\* the ids of the attestations of a list, and the events of the batch sent by
\* the reference identity
IdsOf(as) == {as[i].id : i \in 1..Len(as)}
Own == {i \in 1..Len(events) : events[i].pubkey = PublicKeyHex}

\* C12: for every batch and reference identity, `given` holds exactly the
\* attestations of the events whose pubkey is the reference identity,
\* `received` exactly those of all the others, each once, so that
\* |given| + |received| = |events|.
C12_Partition ==
  body.kind = "ok" =>
    /\ IdsOf(body.given) = Own
    /\ IdsOf(body.received) = (1..Len(events)) \ Own
    /\ Len(body.given) = Cardinality(Own)
    /\ Len(body.given) + Len(body.received) = Len(events)
    /\ \A i \in 1..Len(body.given) :
         body.given[i].from = events[body.given[i].id].pubkey
    /\ \A i \in 1..Len(body.received) :
         body.received[i].from = events[body.received[i].id].pubkey

\* C12 witness: a batch of MaxBatch events, some sent by the reference
\* identity and some by others, has been classified.
C12_Witness ==
  /\ body.kind = "ok"
  /\ Len(events) = MaxBatch
  /\ body.given # <<>>
  /\ body.received # <<>>

\* the list is in descending timestamp order, ties in the order of the batch
SortedStable(as) ==
  \A i, j \in 1..Len(as) :
    i < j => \/ as[i].timestamp > as[j].timestamp
             \/ as[i].timestamp = as[j].timestamp /\ as[i].id < as[j].id

\* C13: `received` and `given` are each sorted by timestamp descending, and
\* attestations of equal timestamp keep the relative order of the batch.
C13_SortedDescendingStable ==
  body.kind = "ok" => SortedStable(body.received) /\ SortedStable(body.given)

\* C13 witness: three received attestations, the batch not in descending
\* order, two of them with the same timestamp.
C13_Witness ==
  /\ body.kind = "ok"
  /\ Len(body.received) = 3
  /\ events[1].created_at < events[2].created_at
  /\ events[2].created_at = events[3].created_at

\* the value slot of the earliest tag of the kind, Undefined without such a tag
Earliest(tags, what, v) ==
  /\ (\A j \in 1..Len(tags) : ~Matches(tags[j], what)) => v = Undefined
  /\ \A j \in 1..Len(tags) :
       (Matches(tags[j], what) /\ \A k \in 1..(j - 1) : ~Matches(tags[k], what))
         => v = Slot(tags[j])

\* C14: `to` is the value slot of the earliest "p" tag, `type` that of the
\* earliest tag whose first element is "l" and third "ai.wot", `comment` that
\* of the earliest "comment" tag; without a matching tag `to` and `type` are
\* undefined and `comment` is the empty string; the classification answers for
\* every batch.
C14_FirstMatch ==
  body.kind = "ok" =>
    \A a \in {body.received[i] : i \in 1..Len(body.received)}
             \cup {body.given[i] : i \in 1..Len(body.given)} :
      LET tags == events[a.id].tags
      IN  /\ Earliest(tags, "p", a.to)
          /\ Earliest(tags, "l", a.type)
          /\ \E v \in {a.comment, Undefined} :
               /\ Earliest(tags, "comment", v)
               /\ v = Undefined => a.comment = ""

\* C14 witness: the batch classified holds an event without tags and one with
\* several tags of each kind.
C14_Witness ==
  /\ body.kind = "ok"
  /\ \E i, j \in 1..Len(events) :
       /\ events[i].tags = <<>>
       /\ Len(events[j].tags) = 8

(***************************************************************************)
(* Failures of the collector's collaborators.                              *)
(***************************************************************************)

\* C15: when Relay.connect fails the request is answered {error} and nothing
\* else: no subscription is created, no deadline timer is started, and from
\* then on nothing happens for this request: no second answer, no further
\* connection attempt.
C15_ConnectFailure ==
  [][ /\ (hpc = "connecting" /\ hpc' = "responded") =>
           /\ response = NoResponse
           /\ response' = [kind |-> "error", events |-> <<>>]
           /\ relay' = "none"
           /\ sub' = "tdz"
           /\ timer' = "unset"
           /\ promise' = "none"
      /\ (hpc = "responded" /\ relay = "none") =>
           UNCHANGED <<hpc, response, relay, sub, timer, promise, collected,
                       closeCalls, resolveCalls, crashed>>
    ]_vars

\* C15 witness: an identity is configured, the connection failed and the
\* request is answered.
C15_Witness ==
  /\ nostrKeys
  /\ hpc = "responded"
  /\ relay = "none"
  /\ response.kind = "error"

\* C16: a failure of a collaborator inside one aggregation path is caught in
\* that path and answered as that path's own error result: no exception
\* leaves a callback of the path and the process never crashes, so that the
\* other aggregations of a combined status request still complete.
C16_FailureIsolation ==
  /\ ~crashed
  /\ escaped = "none"
  /\ (hpc = "responded" /\ promise = "rejected") => response.kind = "error"

(***************************************************************************)
(* The samplers under concurrent requests.                                 *)
(***************************************************************************)

\* neighbouring points of the series are more than one hour apart
Spaced(series) ==
  \A i \in 1..(Len(series) - 1) :
    series[i + 1].timestamp - series[i].timestamp > HourMs

\* C17: whatever the interleaving of the /api/wallet (or /api/trust) requests
\* in flight at once, with a clock that never goes back, any two consecutive
\* points of a series are more than one hour apart: the throttle test and the
\* append run without a suspension point between them.
C17_ThrottleUnderConcurrency ==
  file.kind = "json" => \A k \in DOMAIN file.data : Spaced(file.data[k])

\* C17 witness: of two /api/wallet requests in flight at once the first
\* appended a second point to the series; the second request is still in
\* flight, or has completed at the same clock reading and was throttled.
C17_Witness ==
  /\ file.kind = "json"
  /\ "wallet" \in DOMAIN file.data
  /\ Len(file.data["wallet"]) >= 2
  /\ last.kind = "sample"
  /\ last.key = "wallet"
  /\ nWallet >= 1
  /\ ~last.appended
  /\ last.t1 = file.data["wallet"][Len(file.data["wallet"])].timestamp

\* C18: each addHistoryPoint loads, modifies and saves in one run, no other
\* write in between: a handler's write to one key leaves every other series
\* exactly as it was, and of the series written it drops no point that is
\* still inside the retention window, whichever handler appended it.
C18_NoLostUpdates ==
  [][ (file' # file /\ last'.kind = "sample") =>
        /\ \A k \in Keys \ {last'.key} :
             SeriesOf(LoadHistory(file'), k) = SeriesOf(LoadHistory(file), k)
        /\ LET old == SeriesOf(LoadHistory(file), last'.key)
               new == file'.data[last'.key]
           IN  \A i \in 1..Len(old) :
                 old[i].timestamp > last'.t2 - WeekMs =>
                   \E j \in 1..Len(new) : new[j] = old[i]
    ]_vars

\* C18 witness: with a /api/wallet request still in flight, /api/trust has
\* appended a point, and the point /api/wallet appended earlier in this run
\* is still there.
C18_Witness ==
  /\ JustAppended
  /\ last.key = "trust"
  /\ nWallet >= 1
  /\ "wallet" \in DOMAIN file.data
  /\ \E i \in 1..Len(file.data["wallet"]) :
       file.data["wallet"][i].timestamp >= 0

(***************************************************************************)
(* The samplers polled as densely as the throttle admits: both routes are  *)
(* requested at every clock reading, and the clock advances by one hour    *)
(* and one millisecond, the least distance the throttle lets through.      *)
(***************************************************************************)

\* line 49: "168 points max"
MaxPoints == 168

\* the run is followed for a week and a day
Horizon == WeekMs + 24 * HourMs

\* the store is empty; the clock advances by HourPasses only
HourlyInit ==
  /\ nostrKeys = TRUE
  /\ walletConfig = TRUE
  /\ file \in {Missing, Json(EmptyHistory)}
  /\ clock = 0
  /\ ticks = MaxTicks
  /\ nWallet = 0
  /\ nTrust = 0
  /\ last = NoStep
  /\ CollectorIdle
  /\ ClassifierIdle

\* both series have been sampled at the present clock reading, and the clock
\* moves to the earliest reading at which the throttle lets a sample through
HourPasses ==
  /\ file.kind = "json"
  /\ \A k \in Keys :
       /\ LastPoint(file.data, k) # <<>>
       /\ LastPoint(file.data, k)[1].timestamp = clock
  /\ clock < Horizon
  /\ clock' = clock + HourMs + 1
  /\ UNCHANGED <<nostrKeys, walletConfig, file, ticks, nWallet, nTrust, last,
                 collectorVars, classifierVars>>

HourlyNext ==
  \/ HourPasses
  \/ WalletRequest
  \/ WalletBalance(50)
  \/ TrustRequest
  \/ TrustScore(50)

HourlySpec == HourlyInit /\ [][HourlyNext]_vars

\* C19: starting from an empty store, with a clock that never goes back,
\* after any sequence of throttled samples through the wallet and trust
\* handlers each series holds at most 168 points: its points are more than
\* an hour apart and span less than 7 days.
C19_BoundedHistory ==
  file.kind = "json" =>
    \A k \in DOMAIN file.data :
      LET s == file.data[k]
      IN  /\ Len(s) <= MaxPoints
          /\ Spaced(s)
          /\ Len(s) >= 1 => s[Len(s)].timestamp - s[1].timestamp < WeekMs

\* C19 witness: the run has lasted more than 7 days, points have been
\* pruned from both series, and both hold 168 points.
C19_Witness ==
  /\ file.kind = "json"
  /\ clock > WeekMs
  /\ \A k \in Keys :
       /\ k \in DOMAIN file.data
       /\ Len(file.data[k]) = MaxPoints
       /\ file.data[k][1].timestamp > 0

\* C20: a poll without a usable observation (no wallet or identity
\* configured, the balance call or the trust fetch failing, a trust answer
\* without `score`) leaves history.json exactly as it was; only the answer
\* without `score` is not answered as an error.
C20_NoSampleWithoutValue ==
  last.kind = "nosample" =>
    /\ file = last.before
    /\ last.resp = "ok" => last.key = "trust"

\* C20 witness: a trust answer without `score` arrived when a sample was due,
\* history.json holding points of an earlier time.
C20_Witness ==
  /\ last.kind = "nosample"
  /\ last.key = "trust"
  /\ last.resp = "ok"
  /\ file.kind = "json"
  /\ LastPoint(file.data, "trust") # <<>>
  /\ ShouldSample(LastPoint(file.data, "trust"), clock - HourMs)

=============================================================================
